---- MODULE Spec2Model ----
(***************************************************************************)
(* Gesture-driven particle visualisation: the hand controller (camera and  *)
(* hand-landmark model set-up, the self-rescheduling detection callback,   *)
(* teardown), the gesture interpreter writing the shared GestureState      *)
(* cell, and the particle animator (target buffers, configuration effects, *)
(* per-frame target selection and blend).                                  *)
(*                                                                         *)
(* Numbers.  Landmark coordinates, spreadFactor, centerX and centerY are   *)
(* fixed-point thousandths (1000 = 1.0).  Particle coordinates are         *)
(* fixed-point hundredths (100 = 1.0).  Products are rescaled by integer   *)
(* division; Math.sqrt is the floor square root of the fixed-point value.  *)
(***************************************************************************)
EXTENDS Integers, Sequences, FiniteSets, TLC

VARIABLES
    \* ---- App / shared cell
    gestureRef,        \* gestureRef.current (App.tsx:27)
    \* ---- HandController
    mounted,           \* the component is mounted (its React state is live)
    loading,           \* useState loading
    error,             \* useState error ("null" or a message)
    videoRef,          \* videoRef.current: "el" or "null"
    setupPc,           \* position of the async chain setupMediaPipe/startWebcam:
                       \* awaiting "vision", "landmarker" or "camera", or ended:
                       \* "started" (lines 57-69), "failed" (a catch block),
                       \* "returned" (line 26 or line 50)
    handLandmarker,    \* closure variable: "null", "open" or "closed"
    stream,            \* the MediaStream of getUserMedia: "none", "live", "stopped"
    srcObject,         \* videoEl.srcObject is the stream
    listenerArmed,     \* the 'loadeddata' listener is registered and has not fired
    rafPending,        \* a requestAnimationFrame(predictWebcam) callback is pending
    cleanedUp,         \* the effect's cleanup function has run
    lastOutcome,       \* path taken by the latest predictWebcam invocation
    results,           \* what detectForVideo returned to the latest invocation
    callParity,        \* number of predictWebcam invocations so far, modulo 2
    video,             \* the current camera frame, by what detectForVideo makes of it
    uncaught,          \* an exception escaped a callback
    \* ---- ParticleSystem
    config,            \* props.config of the committed render
    particles,         \* particles.current
    targetPositions,   \* targetPositions.current
    textShapes,        \* textShapes.current
    pendingFx,         \* passive effects of the committed render not yet run
    frame,             \* locals of the latest useFrame callback
    frames             \* number of useFrame callbacks run

hcVars == <<mounted, loading, error, videoRef, setupPc, handLandmarker, stream,
            srcObject, listenerArmed, rafPending, cleanedUp, uncaught>>
detVars == <<gestureRef, lastOutcome, results, callParity>>
envVars == <<video>>
psVars == <<config, particles, targetPositions, textShapes, pendingFx, frame, frames>>
vars == <<hcVars, detVars, envVars, psVars>>

-----------------------------------------------------------------------------
(* Arithmetic helpers *)

Milli == 10 * 10 * 10

Min(a, b) == IF a < b THEN a ELSE b
Max(a, b) == IF a > b THEN a ELSE b

RECURSIVE SqrtBetween(_, _, _)
SqrtBetween(n, lo, hi) ==
    IF lo >= hi THEN lo
    ELSE LET mid == (lo + hi + 1) \div 2
         IN  IF mid * mid <= n THEN SqrtBetween(n, mid, hi)
                               ELSE SqrtBetween(n, lo, mid - 1)

\* Math.sqrt on fixed-point thousandths: n is a sum of squares of thousandths
Sqrt(n) == SqrtBetween(n, 0, 2 * Milli)

-----------------------------------------------------------------------------
(* Gesture interpreter: HandController.predictWebcam, the try block *)

FieldNames == {"isHandDetected", "spreadFactor", "centerX", "centerY", "detectedNumber"}

\* App.tsx:27-32: the initial cell has no detectedNumber field
InitialGesture ==
    [isHandDetected |-> FALSE, spreadFactor |-> 0, centerX |-> 0, centerY |-> 0]

UsedLandmarks == {0, 4, 6, 8, 10, 12, 14, 16, 18, 20}
tips == <<4, 8, 12, 16, 20>>

Dist(landmarks, idx) ==
    LET tip == landmarks[idx]
        wrist == landmarks[0]
    IN  Sqrt((tip.x - wrist.x) * (tip.x - wrist.x) + (tip.y - wrist.y) * (tip.y - wrist.y))

RECURSIVE TotalDist(_, _)
TotalDist(landmarks, k) ==
    IF k = 0 THEN 0 ELSE TotalDist(landmarks, k - 1) + Dist(landmarks, tips[k])

avgDist(landmarks) == TotalDist(landmarks, Len(tips)) \div 5

\* Math.min(Math.max((avgDist - 0.15) / 0.25, 0), 1)
normalizedSpread(landmarks) ==
    Min(Max(((avgDist(landmarks) - 150) * Milli) \div 250, 0), Milli)

isIndexOpen(landmarks) == landmarks[8].y < landmarks[6].y
isMiddleOpen(landmarks) == landmarks[12].y < landmarks[10].y
isRingOpen(landmarks) == landmarks[16].y < landmarks[14].y
isPinkyOpen(landmarks) == landmarks[20].y < landmarks[18].y

\* the third pattern without its pinky test
detectedNumberNoPinky(landmarks) ==
    IF isIndexOpen(landmarks) /\ ~isMiddleOpen(landmarks)
       /\ ~isRingOpen(landmarks) /\ ~isPinkyOpen(landmarks) THEN 1
    ELSE IF isIndexOpen(landmarks) /\ isMiddleOpen(landmarks)
            /\ ~isRingOpen(landmarks) /\ ~isPinkyOpen(landmarks) THEN 2
    ELSE IF isIndexOpen(landmarks) /\ isMiddleOpen(landmarks)
            /\ isRingOpen(landmarks) THEN 3
    ELSE 0

detectedNumber(landmarks) ==
    IF isIndexOpen(landmarks) /\ ~isMiddleOpen(landmarks)
       /\ ~isRingOpen(landmarks) /\ ~isPinkyOpen(landmarks) THEN 1
    ELSE IF isIndexOpen(landmarks) /\ isMiddleOpen(landmarks)
            /\ ~isRingOpen(landmarks) /\ ~isPinkyOpen(landmarks) THEN 2
    ELSE IF isIndexOpen(landmarks) /\ isMiddleOpen(landmarks)
            /\ isRingOpen(landmarks) /\ ~isPinkyOpen(landmarks) THEN 3
    ELSE 0

centerX(landmarks) == (Milli - landmarks[0].x) * 2 - Milli
centerY(landmarks) == 0 - (landmarks[0].y * 2 - Milli)

\* lines 134-140: the whole record is replaced
HandGesture(landmarks) ==
    [isHandDetected |-> TRUE,
     spreadFactor |-> normalizedSpread(landmarks),
     centerX |-> centerX(landmarks),
     centerY |-> centerY(landmarks),
     detectedNumber |-> detectedNumber(landmarks)]

\* a full reset in place of the overlay
NoHandGestureReset(prev) ==
    [isHandDetected |-> FALSE, spreadFactor |-> 0, centerX |-> 0, centerY |-> 0,
     detectedNumber |-> 0]

\* an overlay of isHandDetected alone
NoHandGestureKeepsDigit(prev) ==
    [f \in DOMAIN prev \cup {"isHandDetected"} |->
        IF f = "isHandDetected" THEN FALSE ELSE prev[f]]

\* lines 142-146: { ...gestureRef.current, isHandDetected: false, detectedNumber: 0 }
NoHandGesture(prev) ==
    [f \in DOMAIN prev \cup {"isHandDetected", "detectedNumber"} |->
        IF f = "isHandDetected" THEN FALSE
        ELSE IF f = "detectedNumber" THEN 0
        ELSE prev[f]]

\* a catch block that marks the hand as lost
OnDetectionErrorDropsHand(prev) == NoHandGesture(prev)

\* lines 148-150: the catch block only logs; the cell keeps its value
OnDetectionError(prev) == prev

\* A detection result: no hands, a first hand's landmarks, or a throw of detectForVideo
NoHands == [kind |-> "none"]
DetectThrows == [kind |-> "throw"]
Hands(landmarks) == [kind |-> "hands", landmarks |-> landmarks]

\* reading landmarks[idx].x of a missing landmark is a TypeError inside the try
Throws(res) ==
    \/ res.kind = "throw"
    \/ res.kind = "hands" /\ ~(UsedLandmarks \subseteq DOMAIN res.landmarks)

\* lines 84-150: gestureRef.current after the try/catch
TryDetect(prev, res) ==
    IF Throws(res) THEN OnDetectionError(prev)
    ELSE IF res.kind = "hands" THEN HandGesture(res.landmarks)
    ELSE NoHandGesture(prev)

Outcome(res) ==
    IF Throws(res) THEN "threw"
    ELSE IF res.kind = "hands" THEN "hand" ELSE "nohand"

-----------------------------------------------------------------------------
(* Inputs of the detection callback *)

GridN == 2
Grid == {(k * Milli) \div GridN : k \in 0..GridN}
JointY == Milli \div GridN

Point(x, y) == [x |-> x, y |-> y]
Fingers == {8, 12, 16, 20}

\* a hand whose four fingers rise straight from the wrist: tip heights ty,
\* all mid joints at JointY, the thumb tip anywhere
MkHand(wrist, ty, thumb) ==
    [i \in UsedLandmarks |->
        IF i = 0 THEN wrist
        ELSE IF i = 4 THEN thumb
        ELSE IF i \in Fingers THEN Point(wrist.x, ty[i])
        ELSE Point(wrist.x, JointY)]

Wrists == {Point(g, g) : g \in Grid}
Thumbs == {Point(0, 0), Point(Milli, Milli)}
AllHands == {MkHand(w, ty, th) : w \in Wrists, ty \in [Fingers -> Grid], th \in Thumbs}

\* a first hand that lacks landmark 20
ShortHand ==
    [i \in UsedLandmarks \ {20} |-> Point(0, 0)]

AllResults == {NoHands, DetectThrows, Hands(ShortHand)} \cup {Hands(h) : h \in AllHands}

TipsAt(a, b, c, d) == (8 :> a) @@ (12 :> b) @@ (16 :> c) @@ (20 :> d)
Fist == MkHand(Point(Milli, Milli), TipsAt(Milli, Milli, Milli, Milli), Point(Milli, Milli))
OneFinger == MkHand(Point(Milli, Milli), TipsAt(0, Milli, Milli, Milli), Point(Milli, Milli))
TwoFingers == MkHand(Point(Milli, Milli), TipsAt(0, 0, Milli, Milli), Point(0, 0))
ThreeFingers == MkHand(Point(0, Milli), TipsAt(0, 0, 0, Milli), Point(0, Milli))
OpenPalm == MkHand(Point(0, Milli), TipsAt(0, 0, 0, 0), Point(0, 0))
PinkyUp == MkHand(Point(Milli, Milli), TipsAt(Milli, Milli, JointY, 0), Point(Milli, Milli))
GestureScenes ==
    {NoHands, DetectThrows, Hands(OneFinger), Hands(TwoFingers), Hands(ThreeFingers),
     Hands(OpenPalm), Hands(PinkyUp)}
PresetResults ==
    {NoHands, DetectThrows, Hands(ShortHand),
     Hands(Fist), Hands(OneFinger), Hands(TwoFingers), Hands(OpenPalm)}

-----------------------------------------------------------------------------
(* HandController *)

NoError == "null"
ModelError == "Failed to load AI models."
CameraError == "Camera access denied. Please allow camera access to use hand control."

\* The effect runs once (deps [gestureRef]); its closures read the isMounted
\* binding of the render that created them, which is the initial useState(true).
\* setIsMounted(false) in the cleanup does not change that binding.
isMounted == TRUE

\* setError / setLoading act on the state of a mounted component only
SetFailed(msg) ==
    /\ error' = IF mounted THEN msg ELSE error
    /\ loading' = IF mounted THEN FALSE ELSE loading

\* catch blocks that only log
CatchSetupSilent(msg) == UNCHANGED <<error, loading>>

\* lines 38-44 and 70-76: the catch blocks
CatchSetup(msg) ==
    IF isMounted THEN SetFailed(msg) ELSE UNCHANGED <<error, loading>>

\* line 22: FilesetResolver.forVisionTasks resolves; line 26; line 28 starts
VisionResolved ==
    /\ setupPc = "vision"
    /\ setupPc' = IF ~isMounted THEN "returned" ELSE "landmarker"
    /\ UNCHANGED <<mounted, loading, error, videoRef, handLandmarker, stream, srcObject,
                   listenerArmed, rafPending, cleanedUp, uncaught, detVars, envVars, psVars>>

VisionRejected ==
    /\ setupPc = "vision"
    /\ setupPc' = "failed"
    /\ CatchSetup(ModelError)
    /\ UNCHANGED <<mounted, videoRef, handLandmarker, stream, srcObject,
                   listenerArmed, rafPending, cleanedUp, uncaught, detVars, envVars, psVars>>

\* line 28 resolves, line 37 startWebcam() runs to its await (lines 49-53)
LandmarkerResolved ==
    /\ setupPc = "landmarker"
    /\ handLandmarker' = "open"
    /\ setupPc' = IF videoRef = "null" THEN "returned" ELSE "camera"
    /\ UNCHANGED <<mounted, loading, error, videoRef, stream, srcObject,
                   listenerArmed, rafPending, cleanedUp, uncaught, detVars, envVars, psVars>>

LandmarkerRejected ==
    /\ setupPc = "landmarker"
    /\ setupPc' = "failed"
    /\ CatchSetup(ModelError)
    /\ UNCHANGED <<mounted, videoRef, handLandmarker, stream, srcObject,
                   listenerArmed, rafPending, cleanedUp, uncaught, detVars, envVars, psVars>>

\* line 53 resolves; lines 57-69.  videoEl is the element captured at line 49.
CameraGranted ==
    /\ setupPc = "camera"
    /\ setupPc' = "started"
    /\ IF isMounted
       THEN /\ stream' = "live"
            /\ srcObject' = TRUE
            /\ listenerArmed' = TRUE
            /\ loading' = IF mounted THEN FALSE ELSE loading
       ELSE /\ stream' = "stopped"
            /\ UNCHANGED <<srcObject, listenerArmed, loading>>
    /\ UNCHANGED <<mounted, error, videoRef, handLandmarker, rafPending, cleanedUp,
                   uncaught, detVars, envVars, psVars>>

CameraDenied ==
    /\ setupPc = "camera"
    /\ setupPc' = "failed"
    /\ CatchSetup(CameraError)
    /\ UNCHANGED <<mounted, videoRef, handLandmarker, stream, srcObject,
                   listenerArmed, rafPending, cleanedUp, uncaught, detVars, envVars, psVars>>

\* predictWebcam with requestAnimationFrame as the last statement of the try block
predictWebcamRafInTry(ready) ==
    IF handLandmarker = "null" \/ videoRef = "null" \/ ~isMounted
    THEN /\ rafPending' = FALSE
         /\ callParity' = 1 - callParity
         /\ UNCHANGED <<gestureRef, lastOutcome, results, uncaught>>
    ELSE /\ IF ready
            THEN LET got == IF handLandmarker = "closed" THEN DetectThrows ELSE video
                 IN  /\ gestureRef' = TryDetect(gestureRef, got)
                     /\ lastOutcome' = Outcome(got)
                     /\ results' = got
                     /\ rafPending' = (Outcome(got) # "threw")
            ELSE /\ lastOutcome' = "notready"
                 /\ rafPending' = TRUE
                 /\ UNCHANGED <<gestureRef, results>>
         /\ callParity' = 1 - callParity
         /\ UNCHANGED uncaught

\* lines 79-154.  ready: videoEl.readyState >= 2 && !paused && !ended.
\* A closed landmarker throws from detectForVideo.
predictWebcam(ready) ==
    IF handLandmarker = "null" \/ videoRef = "null" \/ ~isMounted
    THEN /\ rafPending' = FALSE
         /\ callParity' = 1 - callParity
         /\ UNCHANGED <<gestureRef, lastOutcome, results, uncaught>>
    ELSE /\ IF ready
            THEN LET got == IF handLandmarker = "closed" THEN DetectThrows ELSE video
                 IN  /\ gestureRef' = TryDetect(gestureRef, got)
                     /\ lastOutcome' = Outcome(got)
                     /\ results' = got
            ELSE /\ lastOutcome' = "notready"
                 /\ UNCHANGED <<gestureRef, results>>
         /\ rafPending' = TRUE
         /\ callParity' = 1 - callParity
         /\ UNCHANGED uncaught

\* lines 59-64: the 'loadeddata' listener: readyState >= 2, play(), predictWebcam()
LoadedData ==
    /\ listenerArmed
    /\ stream = "live"
    /\ listenerArmed' = FALSE
    /\ predictWebcam(TRUE)
    /\ UNCHANGED <<mounted, loading, error, videoRef, setupPc, handLandmarker, stream,
                   srcObject, cleanedUp, envVars, psVars>>

\* the browser runs the pending requestAnimationFrame callback
AnimationFrame(ready) ==
    /\ rafPending
    /\ ready => (stream = "live" /\ srcObject)
    /\ predictWebcam(ready)
    /\ UNCHANGED <<mounted, loading, error, videoRef, setupPc, handLandmarker, stream,
                   srcObject, listenerArmed, cleanedUp, envVars, psVars>>

\* the scene in front of the camera changes
NextVideoFrame(v) ==
    /\ v # video
    /\ video' = v
    /\ UNCHANGED <<hcVars, detVars, psVars>>

\* lines 158-166: the effect's cleanup, run when the component is removed.
\* seen: what videoRef.current holds when the cleanup runs (React clears the
\* ref of a removed element before or after running passive cleanups).
Teardown(seen) ==
    /\ mounted
    /\ mounted' = FALSE
    /\ cleanedUp' = TRUE
    /\ videoRef' = seen
    /\ rafPending' = FALSE
    /\ stream' = IF seen = "el" /\ srcObject THEN "stopped" ELSE stream
    /\ handLandmarker' = IF handLandmarker # "null" THEN "closed" ELSE handLandmarker
    /\ UNCHANGED <<loading, error, setupPc, srcObject, listenerArmed, uncaught,
                   detVars, envVars, psVars>>

\* React clears the ref of the removed <video> element
RefDetached ==
    /\ cleanedUp
    /\ videoRef = "el"
    /\ videoRef' = "null"
    /\ UNCHANGED <<mounted, loading, error, setupPc, handLandmarker, stream, srcObject,
                   listenerArmed, rafPending, cleanedUp, uncaught, detVars, envVars, psVars>>

-----------------------------------------------------------------------------
(* Shape generator and glyph rasterizer (geometry) *)

Shapes == {"Sphere", "Heart", "Flower", "Saturn", "DNA"}

\* A Float32Array, by its length and its first particle's triple <<x, y, z>>
\* (hundredths): elements 0 and 1 are the ones the first-load test reads.
Buf(len, first) == [len |-> len, first |-> first]
Zeros(len) == Buf(len, <<0, 0, 0>>)

\* Values the body of the switch can give particle i = 0.  Math.random() is a
\* choice among sample draws; Flower and DNA are deterministic at i = 0.
\*   Sphere: points of the radius-4 sphere
\*   Heart:  theta = phi = PI/2, scale 1
\*   Saturn: a ring point at angle 0, distance 4, tilted by PI/6
\* Any other identifier matches no case: x = y = z = 0.
FirstPoint(shape) ==
    CASE shape = "Sphere" -> {<<400, 0, 0>>, <<0, -6, 400>>}
      [] shape = "Heart"  -> {<<400, 100, 0>>}
      [] shape = "Flower" -> {<<0, 0, 0>>}
      [] shape = "Saturn" -> {<<346, 200, 0>>}
      [] shape = "DNA"    -> {<<-200, -500, 0>>}
      [] OTHER            -> {<<0, 0, 0>>}

\* part_001:76-151: the possible return values; the function never throws
generateParticles(count, shape) == {Buf(count * 3, f) : f \in FirstPoint(shape)}

\* part_001:42-52: a foreground pixel found by the stride-4 scan, per text
validPixels(text) ==
    CASE text = "1" -> {[x |-> 252, y |-> 100]}
      [] text = "2" -> {[x |-> 200, y |-> 340]}
      [] text = "3" -> {[x |-> 300, y |-> 248]}
      [] OTHER      -> {[x |-> 100, y |-> 252]}

\* part_001:65-70: pixel to world space; the depth draw is (Math.random() - 0.5)
GlyphPoint(p, size, depth) ==
    <<((4 * p.x - Milli) * size) \div 10,
      ((0 - (4 * p.y - Milli)) * size) \div 10,
      depth>>

\* part_001:16-74
generateTextParticles(text, count, size) ==
    {Buf(count * 3, GlyphPoint(p, size, 25)) : p \in validPixels(text)}

-----------------------------------------------------------------------------
(* ParticleSystem *)

DefaultCount == 6000
LowCount == 4000
MedCount == 8000
HighCount == 12000
SelectableCounts == {LowCount, MedCount, HighCount}
Colors == {"#00ccff", "#ff0066"}

InitialConfig == [count |-> DefaultCount, color |-> "#00ccff", shape |-> "Sphere"]

NoFrame == [key |-> "none", useSpread |-> FALSE, targetSpread |-> 0,
            target |-> <<0, 0, 0>>, oob |-> FALSE]

\* part_000:224: particles.current[0] === 0 && particles.current[1] === 0
IsFirstLoad(p) == p.first[1] = 0 /\ p.first[2] = 0

\* part_000:221-227, the effect on [config.shape, count].
\* TypedArray.prototype.set throws a RangeError when the source is longer
\* than the destination; otherwise it overwrites the leading elements.
ShapeEffect ==
    /\ pendingFx # <<>> /\ Head(pendingFx) = "shape"
    /\ pendingFx' = Tail(pendingFx)
    /\ \E t \in generateParticles(config.count, config.shape) :
        /\ targetPositions' = t
        /\ IF IsFirstLoad(particles)
           THEN IF t.len <= particles.len
                THEN /\ particles' = Buf(particles.len, t.first)
                     /\ UNCHANGED uncaught
                ELSE /\ uncaught' = TRUE
                     /\ UNCHANGED particles
           ELSE UNCHANGED <<particles, uncaught>>
    /\ UNCHANGED <<mounted, loading, error, videoRef, setupPc, handLandmarker, stream,
                   srcObject, listenerArmed, rafPending, cleanedUp, detVars, envVars,
                   config, textShapes, frame, frames>>

\* part_000:230-235, the effect on [count]
TextEffect ==
    /\ pendingFx # <<>> /\ Head(pendingFx) = "text"
    /\ pendingFx' = Tail(pendingFx)
    /\ \E g1 \in generateTextParticles("1", config.count, 6),
          g2 \in generateTextParticles("2", config.count, 6),
          g3 \in generateTextParticles("3", config.count, 6),
          gn \in generateTextParticles("name", config.count, 8) :
        textShapes' = [k \in DOMAIN textShapes \cup {"1", "2", "3", "name"} |->
                          IF k = "1" THEN g1 ELSE IF k = "2" THEN g2
                          ELSE IF k = "3" THEN g3 ELSE gn]
    /\ UNCHANGED <<hcVars, detVars, envVars, config, particles, targetPositions, frame, frames>>

\* App.tsx:115, 142, 156-164: setConfig, the re-render with the new props, and
\* the passive effects whose dependencies changed left to run.  React runs the
\* pending passive effects of a render before it renders again.
Reconfigure(next) ==
    /\ pendingFx = <<>>
    /\ next # config
    /\ config' = next
    /\ pendingFx' = IF next.count # config.count THEN <<"shape", "text">>
                    ELSE IF next.shape # config.shape THEN <<"shape">>
                    ELSE <<>>
    /\ UNCHANGED <<hcVars, detVars, envVars, particles, targetPositions, textShapes, frame, frames>>

ChangeShape(shape) == Reconfigure([config EXCEPT !.shape = shape])
ChangeColor(color) == Reconfigure([config EXCEPT !.color = color])
ChangeCount(count) == Reconfigure([config EXCEPT !.count = count])

\* Number.prototype.toString for the values detectedNumber can hold
toString(n) ==
    CASE n = 0 -> "0" [] n = 1 -> "1" [] n = 2 -> "2" [] n = 3 -> "3"

\* part_000:254: a field the cell lacks destructures to undefined, and
\* undefined > 0 is false
DetectedPositive(g) == "detectedNumber" \in DOMAIN g /\ g.detectedNumber > 0

\* the open-hand rule tried before the digit rule
SelectTargetNameFirst(g, shapes) ==
    IF g.spreadFactor > 800 /\ "name" \in DOMAIN shapes
    THEN [key |-> "name", useSpread |-> FALSE]
    ELSE IF DetectedPositive(g) /\ toString(g.detectedNumber) \in DOMAIN shapes
    THEN [key |-> toString(g.detectedNumber), useSpread |-> FALSE]
    ELSE [key |-> "shape", useSpread |-> TRUE]

\* the open-hand rule asked of a detected hand only
SelectTargetHandOnly(g, shapes) ==
    IF DetectedPositive(g) /\ toString(g.detectedNumber) \in DOMAIN shapes
    THEN [key |-> toString(g.detectedNumber), useSpread |-> FALSE]
    ELSE IF g.isHandDetected /\ g.spreadFactor > 800 /\ "name" \in DOMAIN shapes
    THEN [key |-> "name", useSpread |-> FALSE]
    ELSE [key |-> "shape", useSpread |-> TRUE]

\* part_000:256-269: currentTargetBuffer (by key) and useSpread
SelectTarget(g, shapes) ==
    IF DetectedPositive(g) /\ toString(g.detectedNumber) \in DOMAIN shapes
    THEN [key |-> toString(g.detectedNumber), useSpread |-> FALSE]
    ELSE IF g.spreadFactor > 800 /\ "name" \in DOMAIN shapes
    THEN [key |-> "name", useSpread |-> FALSE]
    ELSE [key |-> "shape", useSpread |-> TRUE]

\* part_000:271
TargetSpread(g) == IF g.isHandDetected THEN g.spreadFactor ELSE 200

\* the explosion factor applied to every target, glyphs included
ScaledTargetAlways(t, useSpread, targetSpread) ==
    (t * (Milli + targetSpread * 3)) \div Milli

\* part_000:286-295: the target of one coordinate
ScaledTarget(t, useSpread, targetSpread) ==
    IF useSpread THEN (t * (Milli + targetSpread * 3)) \div Milli ELSE t

\* part_000:298-302: speed is 0.05 + Math.random() * 0.02, in thousandths
Speeds == {50, 69}
Blend(cur, target, speed) == cur + ((target - cur) * speed) \div Milli

\* part_000:305-308 for particle i = 0: <<sin(2t), cos(1.5t), sin(t)>> in
\* thousandths at the clock samples t = 0 and t = PI/4
ClockSamples == {0, 1}
NoiseUnit(k) == IF k = 0 THEN <<0, 1000, 0>> ELSE <<1000, 383, 707>>
NoiseAmp(targetSpread) == 50 + (targetSpread * 100) \div Milli
Noise(k, a, targetSpread) == (NoiseUnit(k)[a] * NoiseAmp(targetSpread)) \div (Milli * 10)

\* part_000:251-342, the useFrame callback (meshRef.current is set from the
\* first commit on).  Reads of an index past a buffer's end give undefined and
\* writes past the end of a Float32Array are dropped: oob records that the
\* loop over i < count left a buffer.
RenderFrame(k, speed) ==
    /\ frames' = frames + 1
    /\ LET g == gestureRef
           sel == SelectTarget(g, textShapes)
           buf == IF sel.key = "shape" THEN targetPositions ELSE textShapes[sel.key]
           ts == TargetSpread(g)
           tgt == [a \in 1..3 |-> ScaledTarget(buf.first[a], sel.useSpread, ts)]
       IN  /\ frame' = [key |-> sel.key, useSpread |-> sel.useSpread, targetSpread |-> ts,
                        target |-> tgt,
                        oob |-> (config.count * 3 > buf.len \/ config.count * 3 > particles.len)]
           /\ particles' = Buf(particles.len,
                               [a \in 1..3 |-> Blend(particles.first[a], tgt[a], speed)
                                               + Noise(k, a, ts)])
    /\ UNCHANGED <<hcVars, detVars, envVars, config, targetPositions, textShapes, pendingFx>>

-----------------------------------------------------------------------------
(* Specifications *)

StartState ==
    /\ gestureRef = InitialGesture
    /\ mounted = TRUE
    /\ loading = TRUE
    /\ error = NoError
    /\ videoRef = "el"
    /\ setupPc = "vision"
    /\ handLandmarker = "null"
    /\ stream = "none"
    /\ srcObject = FALSE
    /\ listenerArmed = FALSE
    /\ rafPending = FALSE
    /\ cleanedUp = FALSE
    /\ lastOutcome = "none"
    /\ results = NoHands
    /\ callParity = 0
    /\ uncaught = FALSE
    /\ config = InitialConfig
    /\ particles = Zeros(InitialConfig.count * 3)
    /\ targetPositions = Zeros(InitialConfig.count * 3)
    /\ textShapes = [k \in {} |-> Zeros(0)]
    /\ pendingFx = <<"shape", "text">>
    /\ frame = NoFrame
    /\ frames = 0

Init == StartState /\ video \in PresetResults

Setup ==
    \/ VisionResolved
    \/ VisionRejected
    \/ LandmarkerResolved
    \/ LandmarkerRejected
    \/ CameraGranted
    \/ CameraDenied

DetectionLoop ==
    \/ LoadedData
    \/ \E ready \in BOOLEAN : AnimationFrame(ready)
    \/ \E v \in PresetResults : NextVideoFrame(v)

\* bounds on the number of render frames of a run
MaxFrames == 2
MaxConfigFrames == 1

\* The hand controller from mount to after teardown
Next ==
    \/ Setup
    \/ DetectionLoop
    \/ \E seen \in {"el", "null"} : Teardown(seen)
    \/ RefDetached

Spec == Init /\ [][Next]_vars

\* The browser runs a pending requestAnimationFrame callback at its next frame
FrameCallback == \E ready \in BOOLEAN : AnimationFrame(ready)
SpecLoop == Init /\ [][Next]_vars /\ WF_vars(FrameCallback)

\* The detection loop started on every landmark set of the grid
InitGesture == StartState /\ video \in AllResults
NextGesture == Setup \/ DetectionLoop
SpecGesture == InitGesture /\ [][NextGesture]_vars

Effects == ShapeEffect \/ TextEffect

Reconfiguration ==
    \/ \E shape \in Shapes : ChangeShape(shape)
    \/ \E color \in Colors : ChangeColor(color)
    \/ \E count \in SelectableCounts : ChangeCount(count)

\* The particle system under configuration changes, with no hand in view;
\* frames are taken between renders whose effects have run
InitConfig == StartState /\ video = NoHands
NextConfig ==
    \/ Effects
    \/ Reconfiguration
    \/ /\ pendingFx = <<>>
       /\ frames < MaxConfigFrames
       /\ \E k \in ClockSamples, speed \in Speeds : RenderFrame(k, speed)
SpecConfig == InitConfig /\ [][NextConfig]_vars

\* The render loop beside a running detection loop, at the initial
\* configuration.  The random blend speed enters neither the target selection
\* nor the scaling: frames are taken at the lowest speed.
LowestSpeed == CHOOSE s \in Speeds : \A t \in Speeds : s <= t
InitFrame == StartState /\ video \in GestureScenes
NextFrame ==
    \/ VisionResolved
    \/ LandmarkerResolved
    \/ CameraGranted
    \/ LoadedData
    \/ AnimationFrame(TRUE)
    \/ \E v \in GestureScenes : NextVideoFrame(v)
    \/ Effects
    \/ frames < MaxFrames /\ RenderFrame(0, LowestSpeed)
SpecFrame == InitFrame /\ [][NextFrame]_vars

\* The shape effect applied once to every configuration, including a shape
\* identifier outside the enum
UnknownShape == "Cube"
AllCounts == SelectableCounts \cup {DefaultCount}
InitShapes ==
    /\ \E c \in [count : AllCounts, color : Colors, shape : Shapes \cup {UnknownShape}] :
          /\ config = c
          /\ particles = Zeros(c.count * 3)
          /\ targetPositions = Zeros(c.count * 3)
    /\ video = NoHands
    /\ gestureRef = InitialGesture
    /\ mounted = TRUE /\ loading = TRUE /\ error = NoError /\ videoRef = "el"
    /\ setupPc = "vision" /\ handLandmarker = "null" /\ stream = "none"
    /\ srcObject = FALSE /\ listenerArmed = FALSE /\ rafPending = FALSE
    /\ cleanedUp = FALSE /\ lastOutcome = "none" /\ results = NoHands
    /\ uncaught = FALSE /\ callParity = 0
    /\ textShapes = [k \in {} |-> Zeros(0)]
    /\ pendingFx = <<"shape", "text">>
    /\ frame = NoFrame
    /\ frames = 0
NextShapes == Effects
SpecShapes == InitShapes /\ [][NextShapes]_vars

-----------------------------------------------------------------------------
(* Claims about the gesture interpreter, under SpecGesture *)

\* C4: a detection invocation that finds no hands leaves isHandDetected false
\* and detectedNumber 0, and spreadFactor, centerX and centerY as they were
\* immediately before the invocation.
C4_HandLossOverlay ==
    [][lastOutcome' = "nohand" =>
          /\ gestureRef'.isHandDetected = FALSE
          /\ gestureRef'.detectedNumber = 0
          /\ gestureRef'.spreadFactor = gestureRef.spreadFactor
          /\ gestureRef'.centerX = gestureRef.centerX
          /\ gestureRef'.centerY = gestureRef.centerY]_vars

\* a hand at spread 0.6 and centerX 1 was lost and its values are retained
C4_Witness ==
    /\ lastOutcome = "nohand"
    /\ results = NoHands
    /\ gestureRef.isHandDetected = FALSE
    /\ gestureRef.detectedNumber = 0
    /\ gestureRef.spreadFactor = 600
    /\ gestureRef.centerX = Milli
    /\ gestureRef.centerY = Milli

\* C5: when the detection call or the interpretation of its landmarks throws,
\* nothing escapes the callback, the GestureState is the one held before in
\* every field, and the error state stays unset.
C5_ThrowKeepsState ==
    [][lastOutcome' = "threw" =>
          /\ gestureRef' = gestureRef
          /\ error' = NoError
          /\ uncaught' = FALSE]_vars

\* the interpretation of a short landmark list threw while a hand was held
C5_Witness ==
    /\ lastOutcome = "threw"
    /\ results = Hands(ShortHand)
    /\ gestureRef.isHandDetected
    /\ gestureRef.detectedNumber = 2
    /\ error = NoError

\* the open fingers of a landmark set, by the claim's rule (tip above joint)
OpenFingers(landmarks) == {f \in Fingers : landmarks[f].y < landmarks[f - 2].y}

\* C7: the classifier yields 1 iff only the index is open, 2 iff exactly
\* index and middle, 3 iff exactly index, middle and ring, 0 otherwise; a tip
\* level with its joint is closed; the thumb has no part in it.
C7_DigitClassifier ==
    lastOutcome = "hand" =>
        LET open == OpenFingers(results.landmarks)
        IN  gestureRef.detectedNumber =
                IF open = {8} THEN 1
                ELSE IF open = {8, 12} THEN 2
                ELSE IF open = {8, 12, 16} THEN 3
                ELSE 0

\* three fingers up and the pinky tip level with its joint gives 3
C7_Witness ==
    /\ lastOutcome = "hand"
    /\ results.landmarks[20].y = results.landmarks[18].y
    /\ OpenFingers(results.landmarks) = {8, 12, 16}
    /\ results.landmarks[4] = Point(0, 0)
    /\ gestureRef.detectedNumber = 3

\* C9: in every reachable state the cell is a complete record: spreadFactor
\* in [0,1] (0 when the average distance is at most 0.15, 1 when at least
\* 0.40), centerX and centerY in [-1,1], detectedNumber in {0,1,2,3}.
C9_CompleteGestureState ==
    /\ DOMAIN gestureRef = FieldNames
    /\ gestureRef.isHandDetected \in BOOLEAN
    /\ gestureRef.spreadFactor \in 0..Milli
    /\ gestureRef.centerX \in (0 - Milli)..Milli
    /\ gestureRef.centerY \in (0 - Milli)..Milli
    /\ gestureRef.detectedNumber \in 0..3
    /\ lastOutcome = "hand" =>
          /\ avgDist(results.landmarks) <= 150 => gestureRef.spreadFactor = 0
          /\ avgDist(results.landmarks) >= 400 => gestureRef.spreadFactor = Milli

-----------------------------------------------------------------------------
(* Claims about the hand controller's life cycle, under Spec *)

SetupEnded == setupPc \in {"started", "failed", "returned"}

\* C2: teardown at whatever point of the asynchronous setup leaves no
\* detection callback scheduled, every acquired camera stream stopped and
\* every created detection model closed.  Once the cleanup has run and the
\* setup chain has ended nothing is left that could still release them.
C2_TeardownReleasesAll ==
    (cleanedUp /\ SetupEnded) =>
        /\ handLandmarker # "open"
        /\ stream # "live"
        /\ (~listenerArmed => ~rafPending)

\* C10: a failed model load or a refused camera, while mounted, ends in the
\* error state (message set, loading cleared); in the error state no
\* detection callback was or is started and the setup chain is not re-entered;
\* the error state is never left.
C10_SetupFailureIsTerminal ==
    [][/\ (mounted /\ setupPc # "failed" /\ setupPc' = "failed") =>
              (error' \in {ModelError, CameraError} /\ loading' = FALSE)
       /\ error' # NoError =>
              /\ setupPc' = "failed"
              /\ ~listenerArmed' /\ ~rafPending'
              /\ lastOutcome' = "none"
              /\ gestureRef' = InitialGesture
       /\ error # NoError => (error' = error /\ loading' = FALSE)]_vars

\* the model loaded and the camera was refused
C10_Witness ==
    /\ error = CameraError
    /\ loading = FALSE
    /\ mounted
    /\ handLandmarker = "open"
    /\ stream = "none"
    /\ setupPc = "failed"

-----------------------------------------------------------------------------
(* Claims about the particle animator *)

DigitKey == <<"1", "2", "3">>

\* C1 (SpecFrame): a render frame whose snapshot has detectedNumber d in
\* {1,2,3}, with the glyph cloud of d present, selects that cloud with
\* spread-scaling off, whatever spreadFactor is; the name glyph is selected
\* only when no digit rule matched and spreadFactor > 0.8; the configured
\* shape only when neither rule matched (the name rule matches when
\* spreadFactor > 0.8 and the name cloud is present).
C1_DigitBeatsName ==
    [][frames' = frames + 1 =>
        LET g == gestureRef
            digitRule == \E d \in 1..3 :
                            /\ "detectedNumber" \in DOMAIN g
                            /\ g.detectedNumber = d
                            /\ DigitKey[d] \in DOMAIN textShapes
            nameRule == g.spreadFactor > 800 /\ "name" \in DOMAIN textShapes
        IN  /\ \A d \in 1..3 :
                  ("detectedNumber" \in DOMAIN g /\ g.detectedNumber = d
                      /\ DigitKey[d] \in DOMAIN textShapes)
                  => (frame'.key = DigitKey[d] /\ frame'.useSpread = FALSE)
            /\ frame'.key = "name" => (~digitRule /\ g.spreadFactor > 800)
            /\ frame'.key = "shape" => (~digitRule /\ ~nameRule)
            /\ frame'.key \in {"1", "2", "3", "name", "shape"}]_vars

\* a frame read detectedNumber = 2 with spreadFactor = 1 and took the digit-2 cloud
C1_Witness ==
    /\ frames > 0
    /\ gestureRef.isHandDetected
    /\ gestureRef.detectedNumber = 2
    /\ gestureRef.spreadFactor > 800
    /\ "name" \in DOMAIN textShapes
    /\ frame.key = "2"
    /\ frame.useSpread = FALSE
    /\ frame.targetSpread = gestureRef.spreadFactor

\* C3 (SpecConfig): after any configuration changes and frames, the particle
\* buffer, the geometric target buffer and every cached glyph cloud have
\* length 3 x count, and no frame's loop over i < count left a buffer.
\* Stated for the states in which the effects of the last render have run.
C3_BuffersMatchCount ==
    pendingFx = <<>> =>
        /\ particles.len = 3 * config.count
        /\ targetPositions.len = 3 * config.count
        /\ \A k \in DOMAIN textShapes : textShapes[k].len = 3 * config.count
        /\ frame.oob = FALSE

\* C6 (SpecConfig): the shape effect of a shape change that leaves count
\* unchanged regenerates the target buffer and leaves the particle buffer as
\* it was, whatever it holds; the particle buffer is overwritten with the
\* target only by the first run of the effect (before any glyph cloud exists).
C6_ShapeSwitchKeepsPositions ==
    [][(pendingFx # <<>> /\ Head(pendingFx) = "shape" /\ pendingFx' = Tail(pendingFx)) =>
          /\ targetPositions'.len = 3 * config.count
          /\ DOMAIN textShapes # {} => particles' = particles]_vars

\* C8 (SpecShapes): the generator called with an identifier outside the five
\* shapes fails (the error leaves the effect) and hands back no cloud.
C8_UnknownShapeFails ==
    (config.shape \notin Shapes /\ pendingFx # <<"shape", "text">>) => uncaught

-----------------------------------------------------------------------------
(* Claims about the detection loop, under SpecLoop *)

LoopStarted == lastOutcome # "none"

\* C11: until teardown, every invocation of the detection callback leaves one
\* next invocation scheduled, whatever path it took (frame not ready, no hand,
\* hand found, detection threw); so, the browser running pending frame
\* callbacks, once the loop has started another invocation always follows
\* unless the component is torn down.
C11_LoopReschedules ==
    /\ [][(callParity' # callParity /\ ~cleanedUp') => rafPending']_vars
    /\ \A p \in {0, 1} :
          (LoopStarted /\ callParity = p) ~> (callParity # p \/ cleanedUp)

\* a later invocation threw and the loop is still scheduled
C11_Witness ==
    /\ lastOutcome = "threw"
    /\ callParity = 0
    /\ rafPending
    /\ ~cleanedUp

-----------------------------------------------------------------------------
(* Claims about the render frame beside the detection loop, under SpecFrame *)

RestingSpread == Milli \div 5

\* the buffer a frame took, by the key the frame recorded
FrameBuffer(key) == IF key = "shape" THEN targetPositions ELSE textShapes[key]

\* C12: in a render frame the effective spread is spreadFactor when
\* isHandDetected is true and 0.2 otherwise; each target coordinate is the
\* buffer's coordinate times 1 + 3 x effective spread when the selected target
\* is the configured shape, and the buffer's coordinate itself when it is a
\* digit glyph or the name glyph.
C12_EffectiveSpreadScaling ==
    [][frames' = frames + 1 =>
        LET eff == IF gestureRef.isHandDetected THEN gestureRef.spreadFactor
                   ELSE RestingSpread
            buf == FrameBuffer(frame'.key)
        IN  /\ frame'.targetSpread = eff
            /\ frame'.useSpread = (frame'.key = "shape")
            /\ \A a \in 1..3 :
                  frame'.target[a] = IF frame'.key = "shape"
                                     THEN (buf.first[a] * (Milli + 3 * eff)) \div Milli
                                     ELSE buf.first[a]]_vars

\* a frame scaled the configured shape by a detected hand's spread
C12_Witness ==
    /\ frames > 0
    /\ gestureRef.isHandDetected
    /\ gestureRef.spreadFactor > RestingSpread
    /\ frame.key = "shape"
    /\ frame.targetSpread = gestureRef.spreadFactor
    /\ \E a \in 1..3 : frame.target[a] # targetPositions.first[a]

\* the digit read by a frame (a missing field reads as no digit)
SnapshotDigit == IF "detectedNumber" \in DOMAIN gestureRef THEN gestureRef.detectedNumber ELSE 0

\* the target as a function of the digit, the spread and the clouds present
TargetOf(digit, spread, clouds) ==
    IF digit \in 1..3 /\ DigitKey[digit] \in clouds THEN DigitKey[digit]
    ELSE IF spread > (4 * Milli) \div 5 /\ "name" \in clouds THEN "name"
    ELSE "shape"

\* C13: the target a render frame selects is determined by the detectedNumber
\* and spreadFactor it reads and by the glyph clouds present, whatever target
\* the frame before selected and whatever isHandDetected is; in particular a
\* frame that reads no hand, no digit and a retained spreadFactor > 0.8
\* selects the name glyph.
C13_SelectionFromSnapshot ==
    [][frames' = frames + 1 =>
        /\ frame'.key = TargetOf(SnapshotDigit, gestureRef.spreadFactor, DOMAIN textShapes)
        /\ (/\ ~gestureRef.isHandDetected
            /\ SnapshotDigit = 0
            /\ gestureRef.spreadFactor > (4 * Milli) \div 5
            /\ "name" \in DOMAIN textShapes) => frame'.key = "name"]_vars

\* after a hand loss that kept spreadFactor = 1, a frame took the name glyph
\* at the resting spread
C13_Witness ==
    /\ frames > 0
    /\ lastOutcome = "nohand"
    /\ ~gestureRef.isHandDetected
    /\ gestureRef.spreadFactor > (4 * Milli) \div 5
    /\ frame.key = "name"
    /\ frame.targetSpread = RestingSpread

\* C14: in every state of the shared cell, whatever the interleaving of
\* detection invocations (hand found, no hand, exception) and render frames,
\* a detectedNumber in {1,2,3} comes with isHandDetected = TRUE; so a render
\* frame selects a digit glyph only when the cell it reads says a hand is
\* detected.
C14_DigitImpliesHand ==
    /\ [](SnapshotDigit \in 1..3 => gestureRef.isHandDetected)
    /\ [][(frames' = frames + 1 /\ frame'.key \in {"1", "2", "3"})
            => gestureRef.isHandDetected]_vars

\* detection threw after a three-finger hand; a frame then took the digit-3 glyph
C14_Witness ==
    /\ frames > 0
    /\ lastOutcome = "threw"
    /\ gestureRef.isHandDetected
    /\ gestureRef.detectedNumber = 3
    /\ frame.key = "3"

====
